---- MODULE Spec2Model ----
(***************************************************************************)
(* Model of LinestringPathFinder (src/turf-path.ts): the constructor that  *)
(* flattens the input features, locates and splices the query endpoints,   *)
(* resolves intersections and assembles the graph; the time-boxing by      *)
(* isTimedOut; the Dijkstra search; and findShortestPath.                  *)
(*                                                                         *)
(* Geometry is modelled on an integer grid.  A coordinate is a pair        *)
(* <<x, y>> of grid indices; distances are counted in thousandths of a     *)
(* mile, one grid step being GridStep of them.  The polylines of the       *)
(* inputs are rectilinear (every segment horizontal or vertical), so that  *)
(* projections and crossings are grid points again.                        *)
(* The malformed coordinate is the empty array <<>>.  The clock counts     *)
(* units of 30 seconds, so that the default budget of 30 * 1000 ms is one  *)
(* unit.                                                                   *)
(***************************************************************************)
EXTENDS Integers, Sequences, FiniteSets, TLC

\* ------------------------------------------------------------------ bounds
GridStep == 25004       \* thousandths of a mile per grid step (25.004 miles)
KeyBase == 10           \* radix of the node key; larger than any coordinate
MaxTime == 2            \* the clock stops advancing here
MaxWeight == 2          \* largest edge weight of the graphs given to dijkstra alone
MaxSpliceLen == 4       \* most vertices of the polylines given to the splicer alone
MaxRuns == 2            \* constructions made on the same feature array

\* --------------------------------------------------------- program constants
Infinity == 1000000                 \* the number Infinity
AllowedDistanceFromRivers == 40000  \* allowedDistanceFromRivers: 40 miles
DefaultTimeLimit == 1               \* maximumTimeLimit = 30 * 1000 ms

\* pathErrors
pathErrors ==
  [NoPath |-> "No path was found within the given start and end points",
   TooFarFromRivers |-> "The start or end point is too far from a river",
   TimedOut |-> "The pathfinding operation timed out",
   Unknown |-> "Oops, something went wrong"]

\* ------------------------------------------------------------ small helpers
Abs(n) == IF n < 0 THEN -n ELSE n
Min2(a, b) == IF a <= b THEN a ELSE b
Max2(a, b) == IF a >= b THEN a ELSE b
Clamp(v, lo, hi) == IF v < lo THEN lo ELSE IF v > hi THEN hi ELSE v

\* the malformed coordinate: an empty array
BadCoord == <<>>

\* point(coordinates) of @turf/helpers accepts an array of at least 2 numbers
\* and throws on anything else
PointThrows(c) == Len(c) < 2

\* lineString(coordinates) of @turf/helpers throws on fewer than 2 positions
LineStringThrows(cs) == Len(cs) < 2

\* turfDistance: the distance between two coordinates (a metric:
\* zero exactly on equal coordinates, symmetric, triangle inequality)
turfDistance(from, to) ==
  GridStep * (Abs(from[1] - to[1]) + Abs(from[2] - to[2]))

areCoordsEqual(coord1, coord2) ==
  coord1[1] = coord2[1] /\ coord1[2] = coord2[2]

\* coordToKey: `${coord[0]},${coord[1]}`; an empty array gives
\* "undefined,undefined", modelled by the key -2
UndefinedKey == 0 - 2
\* coordToKey keeping the first number of the coordinate only
coordToKeyFirstOnly(coord) ==
  IF Len(coord) >= 2 THEN coord[1] ELSE UndefinedKey

coordToKey(coord) ==
  IF Len(coord) >= 2 THEN coord[1] * KeyBase + coord[2] ELSE UndefinedKey

\* coord.split(',').map(Number): the key parsed back into a coordinate
\* ("undefined,undefined" parses to [NaN, NaN], modelled by <<-1, -1>>)
keyToCoord(key) ==
  IF key = UndefinedKey THEN <<0 - 1, 0 - 1>>
  ELSE <<key \div KeyBase, key % KeyBase>>

\* the point of segment [p, q] closest to r (rectilinear segments: the
\* clamped foot of the perpendicular; otherwise the nearer end)
ClosestOnSegment(p, q, r) ==
  IF p[2] = q[2] THEN <<Clamp(r[1], Min2(p[1], q[1]), Max2(p[1], q[1])), p[2]>>
  ELSE IF p[1] = q[1] THEN <<p[1], Clamp(r[2], Min2(p[2], q[2]), Max2(p[2], q[2]))>>
  ELSE IF turfDistance(p, r) <= turfDistance(q, r) THEN p ELSE q

\* pointToLineDistance(point, segment) for a two-point segment
pointToLineDistance(pt, p, q) == turfDistance(pt, ClosestOnSegment(p, q, pt))

\* nearestPointOnLine(line, pt): scans the segments in order and keeps the
\* first closest point; result {coordinates, dist, index}
RECURSIVE NearestScan(_, _, _, _)
NearestScan(coords, pt, i, best) ==
  IF i > Len(coords) - 1 THEN best
  ELSE LET c == ClosestOnSegment(coords[i], coords[i + 1], pt)
           d == turfDistance(c, pt)
       IN NearestScan(coords, pt, i + 1,
            IF d < best.dist
            THEN [coordinates |-> c, dist |-> d, index |-> i - 1]
            ELSE best)

nearestPointOnLine(coords, pt) ==
  NearestScan(coords, pt, 1,
    [coordinates |-> <<Infinity, Infinity>>, dist |-> Infinity, index |-> 0])

\* turfLength leaving out the first segment of the polyline
RECURSIVE SegmentsFrom(_, _)
SegmentsFrom(coords, k) ==
  IF k >= Len(coords) THEN 0
  ELSE turfDistance(coords[k], coords[k + 1]) + SegmentsFrom(coords, k + 1)

turfLengthSkipFirst(coords) == SegmentsFrom(coords, 2)

\* turfLength: the sum of the segment lengths of a polyline
RECURSIVE turfLength(_)
turfLength(coords) ==
  IF Len(coords) < 2 THEN 0
  ELSE turfDistance(coords[1], coords[2]) + turfLength(Tail(coords))

\* lineSlice(startPt, stopPt, line): the part of the line between the
\* projections of the two points
lineSlice(startPt, stopPt, coords) ==
  LET a == nearestPointOnLine(coords, startPt)
      b == nearestPointOnLine(coords, stopPt)
      lo == IF a.index <= b.index THEN a ELSE b
      hi == IF a.index <= b.index THEN b ELSE a
  IN <<lo.coordinates>>
       \o SubSeq(coords, lo.index + 2, hi.index + 1)
       \o <<hi.coordinates>>

\* the crossing point of segment [p, q] with segment [a, b], as a set of at
\* most one point: lineIntersect reports a point where a horizontal and a
\* vertical segment meet (ends included) and nothing for parallel segments
SegmentCrossing(p, q, a, b) ==
  LET horiz(u, v) == u[2] = v[2] /\ u[1] # v[1]
      vert(u, v) == u[1] = v[1] /\ u[2] # v[2]
      within(v, s, t) == Min2(s, t) <= v /\ v <= Max2(s, t)
  IN IF horiz(p, q) /\ vert(a, b)
        /\ within(a[1], p[1], q[1]) /\ within(p[2], a[2], b[2])
     THEN {<<a[1], p[2]>>}
     ELSE IF vert(p, q) /\ horiz(a, b)
        /\ within(p[1], a[1], b[1]) /\ within(a[2], p[2], q[2])
     THEN {<<p[1], a[2]>>}
     ELSE {}

\* lineIntersect(line1, line2): the distinct crossing points, in the order
\* of the segments of line1 and then of line2
RECURSIVE IntersectScan(_, _, _, _, _)
IntersectScan(l1, l2, i, j, acc) ==
  IF i > Len(l1) - 1 THEN acc
  ELSE IF j > Len(l2) - 1 THEN IntersectScan(l1, l2, i + 1, 1, acc)
  ELSE LET x == SegmentCrossing(l1[i], l1[i + 1], l2[j], l2[j + 1])
           seen == {acc[k] : k \in 1..Len(acc)}
       IN IntersectScan(l1, l2, i, j + 1,
            IF x = {} \/ x \subseteq seen THEN acc
            ELSE Append(acc, CHOOSE c \in x : TRUE))

lineIntersect(l1, l2) == IntersectScan(l1, l2, 1, 1, <<>>)

\* ------------------------------------------------------- Network Splicer
\* ClosestSegmentScan keeping the last segment of minimum distance
RECURSIVE ClosestSegmentScanLast(_, _, _, _, _)
ClosestSegmentScanLast(lineCoords, newPoint, i, closestDistance, closestSegmentIndex) ==
  IF i >= Len(lineCoords) - 1 THEN closestSegmentIndex
  ELSE IF areCoordsEqual(lineCoords[i + 1], lineCoords[i + 2])
  THEN ClosestSegmentScanLast(lineCoords, newPoint, i + 1, closestDistance,
                              closestSegmentIndex)
  ELSE LET distance == pointToLineDistance(newPoint, lineCoords[i + 1],
                                           lineCoords[i + 2])
       IN IF distance <= closestDistance
          THEN ClosestSegmentScanLast(lineCoords, newPoint, i + 1, distance, i)
          ELSE ClosestSegmentScanLast(lineCoords, newPoint, i + 1,
                                      closestDistance, closestSegmentIndex)

\* insertPointIntoLineString: the index (0-based) of the first segment of
\* minimum distance to newPoint, zero-length segments skipped; -1 if none
RECURSIVE ClosestSegmentScan(_, _, _, _, _)
ClosestSegmentScan(lineCoords, newPoint, i, closestDistance, closestSegmentIndex) ==
  IF i >= Len(lineCoords) - 1 THEN closestSegmentIndex
  ELSE IF areCoordsEqual(lineCoords[i + 1], lineCoords[i + 2])
  THEN ClosestSegmentScan(lineCoords, newPoint, i + 1, closestDistance,
                          closestSegmentIndex)
  ELSE LET distance == pointToLineDistance(newPoint, lineCoords[i + 1],
                                           lineCoords[i + 2])
       IN IF distance < closestDistance
          THEN ClosestSegmentScan(lineCoords, newPoint, i + 1, distance, i)
          ELSE ClosestSegmentScan(lineCoords, newPoint, i + 1, closestDistance,
                                  closestSegmentIndex)

\* updatedLine is <<>> for null
insertPointIntoLineString(lineCoords, newPoint) ==
  LET closestSegmentIndex ==
        ClosestSegmentScan(lineCoords, newPoint, 0, Infinity, 0 - 1)
  IN IF closestSegmentIndex = 0 - 1
     THEN [updatedLine |-> <<>>, success |-> FALSE]
     ELSE [updatedLine |->
             SubSeq(lineCoords, 1, closestSegmentIndex + 1)
               \o <<newPoint>>
               \o SubSeq(lineCoords, closestSegmentIndex + 2, Len(lineCoords)),
           success |-> TRUE]

\* ------------------------------------------------------------ Map helpers
\* a Map is a function whose DOMAIN is the set of its keys
EmptyMap == <<>>
MapHas(m, k) == k \in DOMAIN m
MapSet(m, k, v) == [x \in (DOMAIN m) \cup {k} |-> IF x = k THEN v ELSE m[x]]
\* Map.get: undefined (modelled by -1) for a missing key
Undefined == 0 - 1
MapGet(m, k) == IF k \in DOMAIN m THEN m[k] ELSE Undefined
\* value || Infinity: undefined and 0 are both falsy
OrInfinity(v) == IF v = Undefined \/ v = 0 THEN Infinity ELSE v
\* graph.get(key) || []
EdgesOf(graph, key) == IF key \in DOMAIN graph THEN graph[key] ELSE <<>>

\* ------------------------------------------------------ Shortest-Path Solver
\* the state of dijkstra's loop; null predecessors are Undefined
DijkstraInit(graph, source) ==
  [distances |-> MapSet([n \in DOMAIN graph |-> Infinity], source, 0),
   predecessors |-> [n \in DOMAIN graph |-> Undefined],
   visited |-> {},
   pq |-> <<<<source, 0>>>>,
   broke |-> FALSE]

\* the index of the first entry of least distance in the queue
RECURSIVE MinIndexScan(_, _, _)
MinIndexScan(pq, i, minIndex) ==
  IF i > Len(pq) THEN minIndex
  ELSE MinIndexScan(pq, i + 1, IF pq[i][2] < pq[minIndex][2] THEN i ELSE minIndex)

\* the for loop over the neighbors of currentNode
RECURSIVE Relax(_, _, _, _, _)
Relax(neighbors, k, currentNode, currentDistance, st) ==
  IF k > Len(neighbors) THEN st
  ELSE LET neighbor == neighbors[k].target
           newDistance == currentDistance + neighbors[k].weight
       IN IF neighbor \in st.visited
          THEN Relax(neighbors, k + 1, currentNode, currentDistance, st)
          ELSE IF newDistance < OrInfinity(MapGet(st.distances, neighbor))
          THEN Relax(neighbors, k + 1, currentNode, currentDistance,
                 [st EXCEPT !.distances = MapSet(@, neighbor, newDistance),
                            !.predecessors = MapSet(@, neighbor, currentNode),
                            !.pq = Append(@, <<neighbor, newDistance>>)])
          ELSE Relax(neighbors, k + 1, currentNode, currentDistance, st)

\* DijkstraIteration leaving a node that is already visited on the queue
DijkstraIterationNoPop(graph, target, st) ==
  LET minIndex == MinIndexScan(st.pq, 2, 1)
      swapped == [st.pq EXCEPT ![1] = st.pq[minIndex], ![minIndex] = st.pq[1]]
      currentNode == swapped[1][1]
      currentDistance == swapped[1][2]
      rest == Tail(swapped)
  IN IF currentNode \in st.visited THEN st
     ELSE IF currentNode = target
     THEN [st EXCEPT !.pq = rest, !.visited = @ \cup {currentNode},
                     !.broke = TRUE]
     ELSE Relax(EdgesOf(graph, currentNode), 1, currentNode,
                currentDistance,
                [st EXCEPT !.pq = rest, !.visited = @ \cup {currentNode}])

\* one iteration of the while loop (the queue is not empty)
DijkstraIteration(graph, target, st) ==
  LET minIndex == MinIndexScan(st.pq, 2, 1)
      swapped == [st.pq EXCEPT ![1] = st.pq[minIndex], ![minIndex] = st.pq[1]]
      currentNode == swapped[1][1]
      currentDistance == swapped[1][2]
      rest == Tail(swapped)
  IN IF currentNode \in st.visited THEN [st EXCEPT !.pq = rest]
     ELSE IF currentNode = target
     THEN [st EXCEPT !.pq = rest, !.visited = @ \cup {currentNode},
                     !.broke = TRUE]
     ELSE Relax(EdgesOf(graph, currentNode), 1, currentNode,
                currentDistance,
                [st EXCEPT !.pq = rest, !.visited = @ \cup {currentNode}])

DijkstraLoopDone(st) == st.broke \/ Len(st.pq) = 0

RECURSIVE DijkstraLoop(_, _, _)
DijkstraLoop(graph, target, st) ==
  IF DijkstraLoopDone(st) THEN st
  ELSE DijkstraLoop(graph, target, DijkstraIteration(graph, target, st))

\* the backward walk over the predecessor links; fuel bounds the walk by the
\* number of nodes, which an acyclic predecessor relation never exhausts
RECURSIVE WalkBack(_, _, _, _)
WalkBack(predecessors, step, path, fuel) ==
  IF step = Undefined \/ fuel = 0 THEN path
  ELSE WalkBack(predecessors, MapGet(predecessors, step), <<step>> \o path,
                fuel - 1)

\* the answer for a target that is not reached (lines 366-369 and 434)
Unreachable == [path |-> <<>>, distance |-> Infinity]

DijkstraResult(st, source, target) ==
  LET path == WalkBack(st.predecessors, target, <<>>,
                       Cardinality(DOMAIN st.predecessors) + 2)
  IN IF path[1] # source THEN Unreachable
     ELSE [path |-> path, distance |-> OrInfinity(MapGet(st.distances, target))]

\* dijkstra(graph, source, target) on an instance whose isTooFarFromRivers
\* is tooFar
dijkstra(tooFar, graph, source, target) ==
  IF tooFar THEN Unreachable
  ELSE DijkstraResult(DijkstraLoop(graph, target, DijkstraInit(graph, source)),
                      source, target)

\* ---------------------------------------------------------- Path Calibrator
\* toFixed(2), read back by Number: the value rounded to the nearest
\* hundredth of a mile, which is ten thousandths (a half rounds up)
toFixed2(v) == ((v + 5) \div 10) * 10

\* calculateDistanceAlongRiver: slice length plus both projection offsets,
\* rounded to 2 decimals
calculateDistanceAlongRiver(start, stop, river) ==
  LET startPoint == nearestPointOnLine(river, start)
      stopPoint == nearestPointOnLine(river, stop)
      sliced == lineSlice(startPoint.coordinates, stopPoint.coordinates, river)
  IN toFixed2(turfLength(sliced) + startPoint.dist + stopPoint.dist)

\* ------------------------------------------------------------------ inputs
LineStringFeature(cs) == [type |-> "LineString", coordinates |-> cs]
MultiLineStringFeature(parts) == [type |-> "MultiLineString", coordinates |-> parts]

\* the feature collections given to the constructor
Scenarios ==
  << <<>>,
    \* one river
    << LineStringFeature(<< <<0, 0>>, <<2, 0>> >>) >>,
    \* two rivers crossing at <<1, 1>>
    << LineStringFeature(<< <<0, 1>>, <<2, 1>> >>),
       LineStringFeature(<< <<1, 0>>, <<1, 2>> >>) >>,
    \* two parallel rivers, given as one multi-line
    << MultiLineStringFeature(<< << <<0, 0>>, <<2, 0>> >>,
                                 << <<0, 2>>, <<2, 2>> >> >>) >>,
    \* a river with a bend and three tributaries
    << LineStringFeature(<< <<0, 0>>, <<2, 0>>, <<2, 1>> >>),
       MultiLineStringFeature(<< << <<1, 0>>, <<1, 1>> >>,
                                 << <<0, 2>>, <<1, 2>> >> >>),
       LineStringFeature(<< <<2, 1>>, <<2, 2>> >>) >>,
    \* a river degenerated to a single point, and a river starting there
    << LineStringFeature(<< <<0, 0>>, <<0, 0>> >>),
       LineStringFeature(<< <<0, 0>>, <<2, 0>> >>) >> >>

\* the coordinates given as start and end, to the constructor and to a query
QueryCoords == { <<0, 0>>, <<2, 0>>, <<1, 2>>, BadCoord }

\* the graphs given to dijkstra alone: nodes 1..3, every pair of nodes
\* unjoined, joined by one edge of weight 0..MaxWeight, or joined by two
\* parallel edges; node 1 with or without a zero-weight self-loop
Nodes == 1..3
NodePairs == { <<1, 2>>, <<1, 3>>, <<2, 3>> }
PairChoices == {<<>>} \cup { <<w>> : w \in 0..MaxWeight } \cup { <<MaxWeight, 1>> }

RECURSIVE EdgesTo(_, _, _)
EdgesTo(choice, n, m) ==
  IF m > 3 THEN <<>>
  ELSE LET ws == IF m = n THEN (IF n = 1 THEN choice.loop ELSE <<>>)
                 ELSE IF n < m THEN choice.pairs[<<n, m>>]
                 ELSE choice.pairs[<<m, n>>]
       IN [k \in 1..Len(ws) |-> [target |-> m, weight |-> ws[k]]]
            \o EdgesTo(choice, n, m + 1)

GraphOf(choice) == [n \in Nodes |-> EdgesTo(choice, n, 1)]

\* ------------------------------------------------------------------- state
VARIABLES
  allFeatures,          \* the caller's feature array (its objects are shared)
  start, end,           \* the constructor's query coordinates
  now,                  \* Date.now()
  startTime,            \* this.startTime
  maximumTimeLimit,     \* this.maximumTimeLimit
  isTooFarFromRivers,   \* this.isTooFarFromRivers
  network,              \* this.network
  storedLinestrings,    \* this.linestrings
  pc,                   \* where the constructor stands
  loc,                  \* the constructor's locals
  query,                \* the arguments and time of the last findShortestPath
  result,               \* what the last findShortestPath returned
  hist,                 \* what the constructor did under which clock reading
  dj                    \* a run of dijkstra, or of insertPointIntoLineString,
                        \* on arguments of its own

vars == <<allFeatures, start, end, now, startTime, maximumTimeLimit,
          isTooFarFromRivers, network, storedLinestrings, pc, loc, query,
          result, hist, dj>>

InitialPointInfo ==
  [lineIndex |-> 0 - 1, pointOnClosestLine |-> <<>>,
   closestLineDistance |-> Infinity]

NoResult == [kind |-> "none"]
NoQuery == [start |-> <<>>, end |-> <<>>, at |-> 0, ranDijkstra |-> FALSE]
DjOff == [phase |-> "off"]

InitLocals ==
  [startPointInfo |-> InitialPointInfo,
   endPointInfo |-> InitialPointInfo,
   linestrings |-> <<>>,
   next |-> 0,                \* index of the next feature of the forEach
   i |-> 0, j |-> 0,          \* getIntersections' loop indices
   newLinestrings |-> EmptyMap,
   formattedLineStrings |-> <<>>,
   bi |-> 0,                  \* buildNetwork's loop index
   graph |-> EmptyMap]

\* no construction has gone before
NoFirst == [built |-> FALSE, network |-> EmptyMap]

InitHist ==
  [polled |-> FALSE,          \* some isTimedOut poll of the constructor was true
   lateWork |-> FALSE,        \* a splice, intersection or edge step over budget
   crossAfterPoll |-> FALSE,  \* an intersection or edge step after a true poll
   spliceAfterPoll |-> FALSE, \* an endpoint splice after a true poll
   edgeSteps |-> 0,           \* polylines whose edges were inserted
   expiredAtEnd |-> FALSE,    \* the budget was exceeded when the constructor ended
   given |-> <<>>,            \* the feature array as the caller first gave it
   run |-> 1,                 \* which construction on the feature array this is
   first |-> NoFirst,         \* what the construction before this one built
   repeated |-> FALSE]        \* some query was asked again on this instance

\* the state on entry to the constructor, startTime just taken (line 101)
Init ==
  /\ \E n \in 1..Len(Scenarios) : allFeatures = Scenarios[n]
  /\ start \in QueryCoords
  /\ end \in QueryCoords
  /\ now = 0
  /\ startTime = 0
  /\ maximumTimeLimit \in {0, DefaultTimeLimit}
  /\ isTooFarFromRivers = FALSE
  /\ network = EmptyMap
  /\ storedLinestrings = <<>>
  /\ pc = "flatten"
  /\ loc = InitLocals
  /\ query = NoQuery
  /\ result = NoResult
  /\ hist = [InitHist EXCEPT !.given = allFeatures]
  /\ dj = DjOff

\* isTimedOut (startTime is never null once the constructor has begun)
isTimedOut == now - startTime > maximumTimeLimit

\* the clock advances between any two steps
Tick ==
  /\ now < MaxTime
  /\ pc # "thrown"
  /\ dj = DjOff
  /\ now' = now + 1
  /\ UNCHANGED <<allFeatures, start, end, startTime, maximumTimeLimit,
                 isTooFarFromRivers, network, storedLinestrings, pc, loc,
                 query, result, hist, dj>>

\* ------------------------------------------- Flattener and Endpoint Locator
\* LocatePoint letting a later polyline at the same distance win
LocatePointLast(info, coords, pt, lineIndex) ==
  LET pointOnLine == nearestPointOnLine(coords, pt)
      distanceForPoint == turfDistance(pointOnLine.coordinates, pt)
  IN IF distanceForPoint <= info.closestLineDistance
     THEN [lineIndex |-> lineIndex,
           pointOnClosestLine |-> pointOnLine.coordinates,
           closestLineDistance |-> distanceForPoint]
     ELSE info

\* processLineString: locate both endpoints on the polyline and push it;
\* feature is the index in allFeatures of the object pushed (0: an object
\* made by flattenEach)
LocatePoint(info, coords, pt, lineIndex) ==
  LET pointOnLine == nearestPointOnLine(coords, pt)
      distanceForPoint == turfDistance(pointOnLine.coordinates, pt)
  IN IF distanceForPoint < info.closestLineDistance
     THEN [lineIndex |-> lineIndex,
           pointOnClosestLine |-> pointOnLine.coordinates,
           closestLineDistance |-> distanceForPoint]
     ELSE info

processLineString(l, coords, feature) ==
  [l EXCEPT
     !.startPointInfo = LocatePoint(@, coords, start, Len(l.linestrings)),
     !.endPointInfo = LocatePoint(@, coords, end, Len(l.linestrings)),
     !.linestrings = Append(@, [coords |-> coords, feature |-> feature])]

\* FlattenEach keeping the first part of a multi-line only
RECURSIVE FlattenEachFirst(_, _, _)
FlattenEachFirst(l, parts, k) ==
  IF k > Len(parts) \/ k > 1 THEN l
  ELSE FlattenEachFirst(processLineString(l, parts[k], 0), parts, k + 1)

\* flattenEach over the parts of a multi-line
RECURSIVE FlattenEach(_, _, _)
FlattenEach(l, parts, k) ==
  IF k > Len(parts) THEN l
  ELSE FlattenEach(processLineString(l, parts[k], 0), parts, k + 1)

\* processLineString throws where point(start) or point(end) does
ProcessThrows == PointThrows(start) \/ PointThrows(end)

\* one call of the forEach callback (lines 135-148), or the end of the forEach
Flatten ==
  /\ pc = "flatten"
  /\ IF loc.next >= Len(allFeatures)
     THEN /\ pc' = "gate"
          /\ UNCHANGED <<loc, hist>>
     ELSE LET feature == allFeatures[loc.next + 1]
              advanced == [loc EXCEPT !.next = @ + 1]
          IN IF isTimedOut
             THEN /\ loc' = advanced
                  /\ hist' = [hist EXCEPT !.polled = TRUE]
                  /\ pc' = pc
             ELSE IF ProcessThrows /\ (feature.type = "LineString"
                                       \/ Len(feature.coordinates) > 0)
             THEN /\ pc' = "thrown"
                  /\ UNCHANGED <<loc, hist>>
             ELSE /\ loc' = IF feature.type = "LineString"
                            THEN processLineString(advanced, feature.coordinates,
                                                   loc.next + 1)
                            ELSE FlattenEach(advanced, feature.coordinates, 1)
                  /\ pc' = pc
                  /\ UNCHANGED hist
  /\ UNCHANGED <<allFeatures, start, end, now, startTime, maximumTimeLimit,
                 isTooFarFromRivers, network, storedLinestrings, query,
                 result, dj>>

\* the threshold gate (lines 150-160)
\* TooFar demanding that both endpoints are too far
TooFarBoth(l) ==
  /\ l.startPointInfo.closestLineDistance > AllowedDistanceFromRivers
  /\ l.endPointInfo.closestLineDistance > AllowedDistanceFromRivers

TooFar(l) ==
  \/ l.startPointInfo.closestLineDistance > AllowedDistanceFromRivers
  \/ l.endPointInfo.closestLineDistance > AllowedDistanceFromRivers

\* ThresholdGate without the return: the flag is set and the constructor
\* goes on to the splices
ThresholdGateFallsThrough ==
  /\ pc = "gate"
  /\ IF TooFar(loc)
     THEN /\ isTooFarFromRivers' = TRUE
          /\ network' = EmptyMap
          /\ pc' = "splice"
          /\ UNCHANGED hist
     ELSE /\ pc' = "splice"
          /\ UNCHANGED <<isTooFarFromRivers, network, hist>>
  /\ UNCHANGED <<allFeatures, start, end, now, startTime, maximumTimeLimit,
                 storedLinestrings, loc, query, result, dj>>

ThresholdGate ==
  /\ pc = "gate"
  /\ IF TooFar(loc)
     THEN /\ isTooFarFromRivers' = TRUE
          /\ network' = EmptyMap
          /\ pc' = "done"
          /\ hist' = [hist EXCEPT !.expiredAtEnd = isTimedOut]
     ELSE /\ pc' = "splice"
          /\ UNCHANGED <<isTooFarFromRivers, network, hist>>
  /\ UNCHANGED <<allFeatures, start, end, now, startTime, maximumTimeLimit,
                 storedLinestrings, loc, query, result, dj>>

\* --------------------------------------------- splice of the two endpoints
\* SpliceInfo assigning the coordinates without the test of updatedLine
SpliceInfoUnchecked(ls, info) ==
  IF info.lineIndex # 0 - 1 /\ info.pointOnClosestLine # <<>>
  THEN LET r == insertPointIntoLineString(ls[info.lineIndex + 1].coords,
                                          info.pointOnClosestLine)
       IN [ls EXCEPT ![info.lineIndex + 1].coords = r.updatedLine]
  ELSE ls

\* lines 163-172 and 173-182: the projected point is spliced into the object
\* at lineIndex, which for a LineString feature is the caller's object
SpliceInfo(ls, info) ==
  IF info.lineIndex # 0 - 1 /\ info.pointOnClosestLine # <<>>
  THEN LET r == insertPointIntoLineString(ls[info.lineIndex + 1].coords,
                                          info.pointOnClosestLine)
       IN IF r.updatedLine # <<>>
          THEN [ls EXCEPT ![info.lineIndex + 1].coords = r.updatedLine]
          ELSE ls
  ELSE ls

\* AddStubs adding no stub
AddStubsNone(ls, sInfo, eInfo) == ls

\* AddStubs drawing both stubs to the start
AddStubsBothToStart(ls, sInfo, eInfo) ==
  IF sInfo.pointOnClosestLine # <<>> /\ eInfo.pointOnClosestLine # <<>>
  THEN ls \o << [coords |-> <<sInfo.pointOnClosestLine, start>>, feature |-> 0],
                [coords |-> <<eInfo.pointOnClosestLine, start>>, feature |-> 0] >>
  ELSE ls

\* lines 183-193: the two stubs
AddStubs(ls, sInfo, eInfo) ==
  IF sInfo.pointOnClosestLine # <<>> /\ eInfo.pointOnClosestLine # <<>>
  THEN ls \o << [coords |-> <<sInfo.pointOnClosestLine, start>>, feature |-> 0],
                [coords |-> <<eInfo.pointOnClosestLine, end>>, feature |-> 0] >>
  ELSE ls

\* the caller's features after the splices: a LineString feature is the very
\* object held in linestrings
WriteBack(features, ls) ==
  [k \in 1..Len(features) |->
     IF \E n \in 1..Len(ls) : ls[n].feature = k
     THEN [features[k] EXCEPT !.coordinates =
             ls[CHOOSE n \in 1..Len(ls) : ls[n].feature = k].coords]
     ELSE features[k]]

\* lines 163-195 up to the call of buildNetwork, which finds the instance not
\* too far (lines 310-316) and enters getIntersections
SpliceEndpoints ==
  /\ pc = "splice"
  /\ LET spliced == SpliceInfo(SpliceInfo(loc.linestrings, loc.startPointInfo),
                               loc.endPointInfo)
     IN /\ loc' = [loc EXCEPT
                     !.linestrings = AddStubs(spliced, loc.startPointInfo,
                                              loc.endPointInfo),
                     !.i = 0, !.j = 0, !.newLinestrings = EmptyMap]
        /\ allFeatures' = WriteBack(allFeatures, spliced)
        /\ hist' = [hist EXCEPT
                      !.lateWork = @ \/ (isTimedOut /\ spliced # loc.linestrings),
                      !.spliceAfterPoll =
                         @ \/ (hist.polled /\ spliced # loc.linestrings)]
  /\ pc' = "outer"
  /\ UNCHANGED <<start, end, now, startTime, maximumTimeLimit,
                 isTooFarFromRivers, network, storedLinestrings, query,
                 result, dj>>

\* --------------------------------------------------- Intersection Resolver
\* the cooperative poll made on every fifth outer index
PollEvery5(i) == i % 5 = 0 /\ isTimedOut

\* [...newLinestrings.values()]: the keys are first set in ascending order,
\* which is the order of the values
MapValues(m) ==
  LET RECURSIVE Vals(_)
      Vals(k) == IF ~MapHas(m, k) THEN <<>> ELSE <<m[k]>> \o Vals(k + 1)
  IN Vals(0)

\* the forEach over the crossing points of the pair (i, j) (lines 236-260)
RECURSIVE SpliceCrossings(_, _, _, _, _)
SpliceCrossings(m, points, k, i, j) ==
  IF k > Len(points) THEN m
  ELSE LET intersection == points[k]
           newLineString == insertPointIntoLineString(MapGet(m, i), intersection)
           m1 == IF newLineString.success /\ newLineString.updatedLine # <<>>
                 THEN MapSet(m, i, newLineString.updatedLine) ELSE m
           newLineString2 == insertPointIntoLineString(MapGet(m1, j), intersection)
           m2 == IF newLineString2.success /\ newLineString2.updatedLine # <<>>
                 THEN MapSet(m1, j, newLineString2.updatedLine) ELSE m1
       IN SpliceCrossings(m2, points, k + 1, i, j)

\* ResolvePair starting again from the original polyline i
ResolvePairFromScratch(m, ls, i, j) ==
  LET m1 == MapSet(m, i, ls[i + 1].coords)
      m2 == IF MapHas(m1, j) THEN m1 ELSE MapSet(m1, j, ls[j + 1].coords)
  IN SpliceCrossings(m2, lineIntersect(ls[i + 1].coords, ls[j + 1].coords),
                     1, i, j)

\* the body of the inner loop for the pair (i, j) (lines 226-261)
ResolvePair(m, ls, i, j) ==
  LET m1 == IF MapHas(m, i) THEN m ELSE MapSet(m, i, ls[i + 1].coords)
      m2 == IF MapHas(m1, j) THEN m1 ELSE MapSet(m1, j, ls[j + 1].coords)
  IN SpliceCrossings(m2, lineIntersect(ls[i + 1].coords, ls[j + 1].coords),
                     1, i, j)

\* getIntersections has returned r: buildNetwork goes on to its own loop
EnterPopulate(r) ==
  loc' = [loc EXCEPT !.formattedLineStrings = r, !.bi = 0, !.graph = EmptyMap]

\* the head of the outer loop (lines 222-223), or the return at line 265
GetIntersectionsOuter ==
  /\ pc = "outer"
  /\ IF loc.i >= Len(loc.linestrings)
     THEN /\ EnterPopulate(MapValues(loc.newLinestrings))
          /\ pc' = "populate"
          /\ UNCHANGED hist
     ELSE IF PollEvery5(loc.i)
     THEN /\ EnterPopulate(<<>>)
          /\ pc' = "populate"
          /\ hist' = [hist EXCEPT !.polled = TRUE]
     ELSE /\ loc' = [loc EXCEPT !.j = loc.i + 1]
          /\ pc' = "inner"
          /\ UNCHANGED hist
  /\ UNCHANGED <<allFeatures, start, end, now, startTime, maximumTimeLimit,
                 isTooFarFromRivers, network, storedLinestrings, query,
                 result, dj>>

\* one iteration of the inner loop (lines 224-262), or its end
GetIntersectionsInner ==
  /\ pc = "inner"
  /\ IF loc.j >= Len(loc.linestrings)
     THEN /\ loc' = [loc EXCEPT !.i = @ + 1]
          /\ pc' = "outer"
          /\ UNCHANGED hist
     ELSE IF PollEvery5(loc.i)
     THEN /\ EnterPopulate(<<>>)
          /\ pc' = "populate"
          /\ hist' = [hist EXCEPT !.polled = TRUE]
     ELSE /\ loc' = [loc EXCEPT
                       !.newLinestrings = ResolvePair(@, loc.linestrings,
                                                      loc.i, loc.j),
                       !.j = @ + 1]
          /\ pc' = pc
          /\ hist' = [hist EXCEPT !.lateWork = @ \/ isTimedOut,
                                  !.crossAfterPoll = @ \/ hist.polled]
  /\ UNCHANGED <<allFeatures, start, end, now, startTime, maximumTimeLimit,
                 isTooFarFromRivers, network, storedLinestrings, query,
                 result, dj>>

\* --------------------------------------------------------- Graph Assembler
\* AddEdge giving every edge the weight 1
AddEdgeUnweighted(graph, key, targetKey, weight) ==
  MapSet(graph, key,
         Append(EdgesOf(graph, key), [target |-> targetKey, weight |-> 1]))

AddEdge(graph, key, targetKey, weight) ==
  MapSet(graph, key,
         Append(EdgesOf(graph, key),
                [target |-> targetKey, weight |-> weight]))

\* AddPolyline linking every vertex to its successor only
RECURSIVE AddPolylineForward(_, _, _)
AddPolylineForward(graph, coords, j) ==
  IF j >= Len(coords) THEN graph
  ELSE LET coord == coords[j + 1]
           key == coordToKey(coord)
           g2 == IF j = Len(coords) - 1 THEN graph
                 ELSE AddEdge(graph, key, coordToKey(coords[j + 2]),
                              turfDistance(coord, coords[j + 2]))
       IN AddPolylineForward(g2, coords, j + 1)

\* the loop over the vertices of one polyline (lines 331-354)
RECURSIVE AddPolyline(_, _, _)
AddPolyline(graph, coords, j) ==
  IF j >= Len(coords) THEN graph
  ELSE LET coord == coords[j + 1]
           key == coordToKey(coord)
           g1 == IF j = 0 THEN graph
                 ELSE AddEdge(graph, key, coordToKey(coords[j]),
                              turfDistance(coord, coords[j]))
           g2 == IF j = Len(coords) - 1 THEN g1
                 ELSE AddEdge(g1, key, coordToKey(coords[j + 2]),
                              turfDistance(coord, coords[j + 2]))
       IN AddPolyline(g2, coords, j + 1)

\* TimedOutNetwork keeping the edges inserted so far
PartialNetwork(graph) == graph

\* what buildNetwork returns when its poll finds the budget exceeded
TimedOutNetwork(graph) == EmptyMap

\* the constructor's last two assignments (lines 195-196)
Finish(g) ==
  /\ network' = g
  /\ storedLinestrings' = [n \in 1..Len(loc.linestrings) |->
                             loc.linestrings[n].coords]
  /\ pc' = "done"

\* one iteration of buildNetwork's loop (lines 322-355), or its return
BuildNetworkLoop ==
  /\ pc = "populate"
  /\ IF loc.bi >= Len(loc.formattedLineStrings)
     THEN /\ Finish(loc.graph)
          /\ hist' = [hist EXCEPT !.expiredAtEnd = isTimedOut]
          /\ UNCHANGED loc
     ELSE IF PollEvery5(loc.bi)
     THEN /\ Finish(TimedOutNetwork(loc.graph))
          /\ hist' = [hist EXCEPT !.polled = TRUE, !.expiredAtEnd = TRUE]
          /\ UNCHANGED loc
     ELSE /\ loc' = [loc EXCEPT
                       !.graph = AddPolyline(@, loc.formattedLineStrings[loc.bi + 1], 0),
                       !.bi = @ + 1]
          /\ hist' = [hist EXCEPT !.lateWork = @ \/ isTimedOut,
                                  !.crossAfterPoll = @ \/ hist.polled,
                                  !.edgeSteps = @ + 1]
          /\ UNCHANGED <<network, storedLinestrings, pc>>
  /\ UNCHANGED <<allFeatures, start, end, now, startTime, maximumTimeLimit,
                 isTooFarFromRivers, query, result, dj>>

\* ------------------------------------------------------------ findShortestPath
\* the straight-line fallback; lineString([start, end]) accepts any two
\* entries, point(start) and point(end) throw on a malformed coordinate
FallbackThrows(s, e) == PointThrows(s) \/ PointThrows(e)

\* Failure with the fallback path drawn from end to start
FailureReversed(s, e, error) ==
  [kind |-> "returned", success |-> FALSE, path |-> <<e, s>>,
   distance |-> turfDistance(s, e), error |-> error]

Failure(s, e, error) ==
  [kind |-> "returned", success |-> FALSE, path |-> <<s, e>>,
   distance |-> turfDistance(s, e), error |-> error]

Success(path, distance) ==
  [kind |-> "returned", success |-> TRUE, path |-> path, distance |-> distance]

Thrown == [kind |-> "thrown"]

\* a return statement of the try block: the value, or the exception raised
\* while building it
Return(throws, value, ranDijkstra) ==
  [threw |-> throws, value |-> IF throws THEN Thrown ELSE value,
   ranDijkstra |-> ranDijkstra]

\* TryBlock with the too-far test made before the time-out test
TryBlockTooFarFirst(s, e) ==
  IF isTooFarFromRivers
  THEN Return(FallbackThrows(s, e), Failure(s, e, pathErrors.TooFarFromRivers),
              FALSE)
  ELSE IF isTimedOut
  THEN Return(FallbackThrows(s, e), Failure(s, e, pathErrors.TimedOut), FALSE)
  ELSE LET found == dijkstra(isTooFarFromRivers, network, coordToKey(s),
                             coordToKey(e))
           formattedPath == [k \in 1..Len(found.path) |-> keyToCoord(found.path[k])]
       IN IF found.distance = Infinity
          THEN Return(FallbackThrows(s, e), Failure(s, e, pathErrors.NoPath), TRUE)
          ELSE Return(LineStringThrows(formattedPath) \/ FallbackThrows(s, e),
                      Success(formattedPath,
                              calculateDistanceAlongRiver(s, e, formattedPath)),
                      TRUE)

\* the try block (lines 441-493)
TryBlock(s, e) ==
  IF isTimedOut
  THEN Return(FallbackThrows(s, e), Failure(s, e, pathErrors.TimedOut), FALSE)
  ELSE IF isTooFarFromRivers
  THEN Return(FallbackThrows(s, e), Failure(s, e, pathErrors.TooFarFromRivers),
              FALSE)
  ELSE LET found == dijkstra(isTooFarFromRivers, network, coordToKey(s),
                             coordToKey(e))
           formattedPath == [k \in 1..Len(found.path) |-> keyToCoord(found.path[k])]
       IN IF found.distance = Infinity
          THEN Return(FallbackThrows(s, e), Failure(s, e, pathErrors.NoPath), TRUE)
          ELSE Return(LineStringThrows(formattedPath) \/ FallbackThrows(s, e),
                      Success(formattedPath,
                              calculateDistanceAlongRiver(s, e, formattedPath)),
                      TRUE)

\* the catch block (lines 494-502) builds the fallback again
findShortestPath(s, e) ==
  LET tried == TryBlock(s, e)
  IN IF ~tried.threw THEN tried
     ELSE Return(FallbackThrows(s, e), Failure(s, e, pathErrors.Unknown),
                 tried.ranDijkstra)

\* FindShortestPath with the clock started again by the query
FindShortestPathRestartsClock ==
  /\ pc = "done"
  /\ \E s \in QueryCoords, e \in QueryCoords :
       LET r == findShortestPath(s, e)
       IN /\ result' = r.value
          /\ query' = [start |-> s, end |-> e, at |-> now,
                       ranDijkstra |-> r.ranDijkstra]
  /\ startTime' = now
  /\ UNCHANGED <<allFeatures, start, end, now, maximumTimeLimit,
                 isTooFarFromRivers, network, storedLinestrings, pc, loc,
                 hist, dj>>

\* a query on the constructed instance
FindShortestPath ==
  /\ pc = "done"
  /\ \E s \in QueryCoords, e \in QueryCoords :
       LET r == findShortestPath(s, e)
       IN /\ result' = r.value
          /\ query' = [start |-> s, end |-> e, at |-> now,
                       ranDijkstra |-> r.ranDijkstra]
  /\ UNCHANGED <<allFeatures, start, end, now, startTime, maximumTimeLimit,
                 isTooFarFromRivers, network, storedLinestrings, pc, loc,
                 hist, dj>>

\* the caller, having been given a network, constructs another instance from
\* the same feature array and the same query coordinates: new
\* LinestringPathFinder(allFeatures, start, end) once more, the fields
\* initialised anew and startTime taken again
ConstructAgain ==
  /\ pc = "done"
  /\ hist.run < MaxRuns
  /\ ~isTooFarFromRivers
  /\ ~hist.polled
  /\ startTime' = now
  /\ isTooFarFromRivers' = FALSE
  /\ network' = EmptyMap
  /\ storedLinestrings' = <<>>
  /\ pc' = "flatten"
  /\ loc' = InitLocals
  /\ query' = NoQuery
  /\ result' = NoResult
  /\ hist' = [InitHist EXCEPT
                !.given = hist.given,
                !.run = hist.run + 1,
                !.first = [built |-> TRUE, network |-> network]]
  /\ UNCHANGED <<allFeatures, start, end, now, maximumTimeLimit, dj>>

Next ==
  \/ Tick
  \/ Flatten
  \/ ThresholdGate
  \/ SpliceEndpoints
  \/ GetIntersectionsOuter
  \/ GetIntersectionsInner
  \/ BuildNetworkLoop
  \/ FindShortestPath

Spec == Init /\ [][Next]_vars

\* the caller asks the query it asked last once more: findShortestPath with
\* the same start and end on the same instance, at the present time
FindShortestPathAgain ==
  /\ pc = "done"
  /\ result # NoResult
  /\ LET r == findShortestPath(query.start, query.end)
     IN /\ result' = r.value
        /\ query' = [query EXCEPT !.at = now, !.ranDijkstra = r.ranDijkstra]
  /\ hist' = [hist EXCEPT !.repeated = TRUE]
  /\ UNCHANGED <<allFeatures, start, end, now, startTime, maximumTimeLimit,
                 isTooFarFromRivers, network, storedLinestrings, pc, loc, dj>>

\* the constructor followed by queries, some of them asked again
NextQueries ==
  \/ Next
  \/ FindShortestPathAgain

SpecQueries == Init /\ [][NextQueries]_vars

\* the same, with up to MaxRuns constructions on the one feature array
NextAgain ==
  \/ Next
  \/ ConstructAgain

SpecAgain == Init /\ [][NextAgain]_vars

\* ------------------------------------------------- dijkstra on its own
\* dijkstra as a function of its arguments: the graph, source and target are
\* drawn from the bounded sets, the while loop runs one iteration per step
GraphChoices ==
  [pairs : [NodePairs -> PairChoices], loop : {<<>>, <<0>>}]

\* sources and targets: the nodes and one key that is not in the graph
Endpoints == 0..3

InitDijkstra ==
  /\ allFeatures = <<>>
  /\ start = <<0, 0>>
  /\ end = <<0, 0>>
  /\ now = 0
  /\ startTime = 0
  /\ maximumTimeLimit = DefaultTimeLimit
  /\ isTooFarFromRivers = FALSE
  /\ network = EmptyMap
  /\ storedLinestrings = <<>>
  /\ pc = "off"
  /\ loc = InitLocals
  /\ query = NoQuery
  /\ result = NoResult
  /\ hist = InitHist
  /\ \E c \in GraphChoices, s \in Endpoints, t \in Endpoints, far \in BOOLEAN :
       dj = [phase |-> "enter", tooFar |-> far, graph |-> GraphOf(c),
             source |-> s, target |-> t,
             st |-> DijkstraInit(GraphOf(c), s), out |-> Unreachable]

\* lines 365-388
DijkstraEnter ==
  /\ dj.phase = "enter"
  /\ dj' = [dj EXCEPT !.phase = IF dj.tooFar THEN "returned" ELSE "loop"]
  /\ UNCHANGED <<allFeatures, start, end, now, startTime, maximumTimeLimit,
                 isTooFarFromRivers, network, storedLinestrings, pc, loc,
                 query, result, hist>>

\* one iteration of the while loop (lines 390-422)
DijkstraWhile ==
  /\ dj.phase = "loop"
  /\ ~DijkstraLoopDone(dj.st)
  /\ dj' = [dj EXCEPT !.st = DijkstraIteration(dj.graph, dj.target, dj.st)]
  /\ UNCHANGED <<allFeatures, start, end, now, startTime, maximumTimeLimit,
                 isTooFarFromRivers, network, storedLinestrings, pc, loc,
                 query, result, hist>>

\* the reconstruction and the return (lines 424-436)
DijkstraReturn ==
  /\ dj.phase = "loop"
  /\ DijkstraLoopDone(dj.st)
  /\ dj' = [dj EXCEPT !.phase = "returned",
                      !.out = DijkstraResult(dj.st, dj.source, dj.target)]
  /\ UNCHANGED <<allFeatures, start, end, now, startTime, maximumTimeLimit,
                 isTooFarFromRivers, network, storedLinestrings, pc, loc,
                 query, result, hist>>

NextDijkstra ==
  \/ DijkstraEnter
  \/ DijkstraWhile
  \/ DijkstraReturn

SpecDijkstra == InitDijkstra /\ [][NextDijkstra]_vars

\* dijkstra is not interrupted: a call that can take a step takes it
LiveDijkstra == SpecDijkstra /\ WF_vars(NextDijkstra)

\* the least total weight of a path from source to target in the graph
\* (Infinity if there is none), by relaxing every edge once per round
RelaxRound(graph, d) ==
  [n \in DOMAIN d |->
     LET into == UNION { { d[m] + graph[m][k].weight :
                             k \in { y \in 1..Len(graph[m]) : graph[m][y].target = n } } :
                           m \in { x \in DOMAIN graph : d[x] < Infinity } }
                   \cup {d[n]}
     IN CHOOSE v \in into : \A w \in into : v <= w]

RECURSIVE RelaxRounds(_, _, _)
RelaxRounds(graph, d, rounds) ==
  IF rounds = 0 THEN d ELSE RelaxRounds(graph, RelaxRound(graph, d), rounds - 1)

ShortestDistance(graph, source, target) ==
  LET all == (DOMAIN graph) \cup {source, target}
             \cup UNION { { graph[m][k].target : k \in 1..Len(graph[m]) } :
                          m \in DOMAIN graph }
      d0 == [n \in all |-> IF n = source THEN 0 ELSE Infinity]
  IN RelaxRounds(graph, d0, Cardinality(all))[target]

\* ------------------------------------ insertPointIntoLineString on its own
\* insertPointIntoLineString as a function of its arguments: the polyline
\* (rectilinear, with up to MaxSpliceLen vertices, repeated vertices
\* included) and the point are drawn from the bounded sets; the point is
\* inserted, and inserted once more into the polyline returned
SpliceGrid == { <<x, y>> : x \in 0..2, y \in 0..1 }

Rectilinear(cs) ==
  \A k \in 1..(Len(cs) - 1) : cs[k][1] = cs[k + 1][1] \/ cs[k][2] = cs[k + 1][2]

SpliceLines ==
  { cs \in UNION { [1..n -> SpliceGrid] : n \in 0..MaxSpliceLen } :
      Rectilinear(cs) }

InitSplice ==
  /\ allFeatures = <<>>
  /\ start = <<0, 0>>
  /\ end = <<0, 0>>
  /\ now = 0
  /\ startTime = 0
  /\ maximumTimeLimit = DefaultTimeLimit
  /\ isTooFarFromRivers = FALSE
  /\ network = EmptyMap
  /\ storedLinestrings = <<>>
  /\ pc = "off"
  /\ loc = InitLocals
  /\ query = NoQuery
  /\ result = NoResult
  /\ hist = InitHist
  /\ \E cs \in SpliceLines, p \in SpliceGrid :
       dj = [phase |-> "insert", lineCoords |-> cs, newPoint |-> p,
             out |-> [updatedLine |-> <<>>, success |-> FALSE]]

\* the call insertPointIntoLineString(lineCoords, newPoint)
InsertPoint ==
  /\ dj.phase = "insert"
  /\ dj' = [dj EXCEPT !.phase = "inserted",
                      !.out = insertPointIntoLineString(dj.lineCoords,
                                                        dj.newPoint)]
  /\ UNCHANGED <<allFeatures, start, end, now, startTime, maximumTimeLimit,
                 isTooFarFromRivers, network, storedLinestrings, pc, loc,
                 query, result, hist>>

\* the same point inserted into the polyline the first call returned, as the
\* constructor does with a crossing point that is the projected point too
InsertAgain ==
  /\ dj.phase = "inserted"
  /\ dj.out.success
  /\ dj' = [dj EXCEPT !.phase = "again",
                      !.lineCoords = dj.out.updatedLine,
                      !.out = insertPointIntoLineString(dj.out.updatedLine,
                                                        dj.newPoint)]
  /\ UNCHANGED <<allFeatures, start, end, now, startTime, maximumTimeLimit,
                 isTooFarFromRivers, network, storedLinestrings, pc, loc,
                 query, result, hist>>

NextSplice ==
  \/ InsertPoint
  \/ InsertAgain

SpecSplice == InitSplice /\ [][NextSplice]_vars

\* ------------------------------------------- queries along a single river
\* an instance built on one straight river, with or without a vertex at its
\* middle, and queried between points on it and a point one step off it
AlongScenarios ==
  << << LineStringFeature(<< <<0, 0>>, <<2, 0>> >>) >>,
     << LineStringFeature(<< <<0, 0>>, <<1, 0>>, <<2, 0>> >>) >> >>

AlongCoords == { <<0, 0>>, <<1, 0>>, <<2, 0>>, <<1, 1>> }

InitAlong ==
  /\ \E n \in 1..Len(AlongScenarios) : allFeatures = AlongScenarios[n]
  /\ start \in AlongCoords
  /\ end \in AlongCoords
  /\ now = 0
  /\ startTime = 0
  /\ maximumTimeLimit = DefaultTimeLimit
  /\ isTooFarFromRivers = FALSE
  /\ network = EmptyMap
  /\ storedLinestrings = <<>>
  /\ pc = "flatten"
  /\ loc = InitLocals
  /\ query = NoQuery
  /\ result = NoResult
  /\ hist = [InitHist EXCEPT !.given = allFeatures]
  /\ dj = DjOff

\* a query on the constructed instance between two of the points
FindShortestPathAlong ==
  /\ pc = "done"
  /\ \E s \in AlongCoords, e \in AlongCoords :
       LET r == findShortestPath(s, e)
       IN /\ result' = r.value
          /\ query' = [start |-> s, end |-> e, at |-> now,
                       ranDijkstra |-> r.ranDijkstra]
  /\ UNCHANGED <<allFeatures, start, end, now, startTime, maximumTimeLimit,
                 isTooFarFromRivers, network, storedLinestrings, pc, loc,
                 hist, dj>>

NextAlong ==
  \/ Tick
  \/ Flatten
  \/ ThresholdGate
  \/ SpliceEndpoints
  \/ GetIntersectionsOuter
  \/ GetIntersectionsInner
  \/ BuildNetworkLoop
  \/ FindShortestPathAlong

SpecAlong == InitAlong /\ [][NextAlong]_vars

\* ================================================================== claims
TimedOutAtQuery == query.at - startTime > maximumTimeLimit

Returned == result.kind = "returned"

FailedWith(error) == Returned /\ ~result.success /\ result.error = error

\* C1: every result of findShortestPath follows one precedence order: with
\* the budget exceeded at the query it is Failure(TimedOut); otherwise on an
\* instance flagged too far it is Failure(TooFarFromRivers); otherwise with
\* an infinite solver distance it is Failure(NoPath); otherwise Success; and
\* the solver is not run in the first two cases.
C1_Precedence ==
  Returned =>
    IF TimedOutAtQuery
    THEN FailedWith(pathErrors.TimedOut) /\ ~query.ranDijkstra
    ELSE IF isTooFarFromRivers
    THEN FailedWith(pathErrors.TooFarFromRivers) /\ ~query.ranDijkstra
    ELSE IF dijkstra(FALSE, network, coordToKey(query.start),
                     coordToKey(query.end)).distance = Infinity
    THEN FailedWith(pathErrors.NoPath) /\ query.ranDijkstra
    ELSE result.success /\ query.ranDijkstra

\* a query answered on an instance that is both timed out and too far
C1_Witness ==
  Returned /\ TimedOutAtQuery /\ isTooFarFromRivers /\ Len(allFeatures) > 0

\* C2: findShortestPath never throws, whatever its arguments.
C2_NeverThrows == result.kind # "thrown"

\* C3: the constructor never throws, whatever its arguments.
C3_ConstructorNeverThrows == pc # "thrown"

\* C4: a failure result carries the two-point path [start, end], the
\* start-to-end distance and one of the four error kinds; a success result
\* carries no error field.
C4_ResultShape ==
  Returned =>
    IF result.success THEN "error" \notin DOMAIN result
    ELSE /\ result.path = <<query.start, query.end>>
         /\ result.distance = turfDistance(query.start, query.end)
         /\ result.error \in {pathErrors.TimedOut, pathErrors.TooFarFromRivers,
                              pathErrors.NoPath, pathErrors.Unknown}

\* a failure between two different points on a built network
C4_Witness ==
  /\ FailedWith(pathErrors.NoPath)
  /\ query.start # query.end
  /\ network # EmptyMap

\* C5: a finite distance reported by dijkstra is the least total weight of a
\* path from source to target.
C5_FiniteIsShortest ==
  (dj.phase = "returned" /\ ~dj.tooFar /\ dj.out.distance < Infinity)
    => dj.out.distance = ShortestDistance(dj.graph, dj.source, dj.target)

\* C6: dijkstra reports an infinite distance and an empty path exactly when
\* the target is unreachable, and a finite distance with a path beginning
\* with the source whenever it is reachable.
C6_InfiniteIffUnreachable ==
  (dj.phase = "returned" /\ ~dj.tooFar) =>
    LET reachable ==
          ShortestDistance(dj.graph, dj.source, dj.target) < Infinity
    IN /\ (dj.out.distance = Infinity /\ dj.out.path = <<>>) <=> ~reachable
       /\ reachable => /\ dj.out.distance < Infinity
                       /\ dj.out.path # <<>>
                       /\ dj.out.path[1] = dj.source

\* C7 as claimed: no splice, intersection or edge insertion happens while the
\* budget is exceeded, and a constructor that ends over budget ends with an
\* empty network.
C7_NoWorkOverBudget ==
  /\ ~hist.lateWork
  /\ (pc = "done" /\ hist.expiredAtEnd) => network = EmptyMap

\* C7 amended: once a poll of isTimedOut in the constructor has found the
\* budget exceeded, no intersection or edge insertion step follows and the
\* constructor ends with an empty network.
C7_NoWorkAfterPoll ==
  /\ ~hist.crossAfterPoll
  /\ (pc = "done" /\ hist.polled) => network = EmptyMap

\* the poll at index 5 of the population loop discards the edges of five
\* polylines
C7_Witness ==
  pc = "done" /\ hist.polled /\ hist.edgeSteps > 0 /\ network = EmptyMap

\* C8: TimedOut is answered only when construction exceeded its budget and
\* the network is empty.
C8_TimedOutOnlyAfterExpiredConstruction ==
  FailedWith(pathErrors.TimedOut) => (hist.expiredAtEnd /\ network = EmptyMap)

\* the polylines of the input features
Polylines(features) ==
  UNION { IF features[k].type = "LineString" THEN {features[k].coordinates}
          ELSE { features[k].coordinates[n] :
                   n \in 1..Len(features[k].coordinates) } :
          k \in 1..Len(features) }

\* the constructor's start or end is further than allowed from every polyline
InputTooFar ==
  \E p \in {start, end} :
    /\ ~PointThrows(p)
    /\ \A line \in Polylines(allFeatures) :
         turfDistance(nearestPointOnLine(line, p).coordinates, p)
           > AllowedDistanceFromRivers

\* C9 as claimed: with an endpoint too far from every polyline every result
\* is Failure(TooFarFromRivers).
C9_AlwaysTooFar ==
  (pc = "done" /\ Returned /\ InputTooFar)
    => FailedWith(pathErrors.TooFarFromRivers)

\* C9 amended: with an endpoint too far from every polyline every result is
\* Failure(TooFarFromRivers), unless the budget is exceeded at the query,
\* when it is Failure(TimedOut).
C9_TooFarUnlessTimedOut ==
  (pc = "done" /\ Returned /\ InputTooFar)
    => FailedWith(IF TimedOutAtQuery THEN pathErrors.TimedOut
                  ELSE pathErrors.TooFarFromRivers)

\* one endpoint on a river, the other too far from both rivers
C9_Witness ==
  /\ pc = "done" /\ InputTooFar /\ Len(allFeatures) > 0
  /\ loc.startPointInfo.closestLineDistance = 0
  /\ FailedWith(pathErrors.TooFarFromRivers)

\* C10: with a budget of 0 every result on a non-empty input is
\* Failure(TimedOut) with the two-point path.
C10_ZeroBudgetTimesOut ==
  (maximumTimeLimit = 0 /\ Len(allFeatures) > 0 /\ Returned)
    => (FailedWith(pathErrors.TimedOut)
        /\ result.path = <<query.start, query.end>>)

\* ------------------------------------------------------------------- C11
Vertices(coords) == { coords[k] : k \in 1..Len(coords) }

\* two polylines have a point in common: they cross, or a vertex of one lies
\* on the other
Meet(l1, l2) ==
  \/ lineIntersect(l1, l2) # <<>>
  \/ Vertices(l1) \cap Vertices(l2) # {}
  \/ \E v \in Vertices(l1) : Len(l2) >= 2 /\ nearestPointOnLine(l2, v).dist = 0
  \/ \E v \in Vertices(l2) : Len(l1) >= 2 /\ nearestPointOnLine(l1, v).dist = 0

\* the polylines of ls joined to those of S through any chain of polylines
RECURSIVE JoinedTo(_, _)
JoinedTo(ls, S) ==
  LET T == S \cup { n \in 1..Len(ls) : \E m \in S : Meet(ls[m], ls[n]) }
  IN IF T = S THEN S ELSE JoinedTo(ls, T)

\* the nodes reached from those of S along the edges of the graph
RECURSIVE Component(_, _)
Component(graph, S) ==
  LET T == S \cup UNION { { graph[m][k].target : k \in 1..Len(graph[m]) } :
                            m \in S \cap DOMAIN graph }
  IN IF T = S THEN S ELSE Component(graph, T)

\* the constructor has run to its end, not too far, no poll finding the
\* budget exceeded
Built == pc = "done" /\ ~isTooFarFromRivers /\ ~hist.polled

\* the polyline of the start and the polyline of the end are not joined,
\* neither directly nor through other polylines or the stubs
Separated ==
  (loc.endPointInfo.lineIndex + 1)
    \notin JoinedTo(storedLinestrings, {loc.startPointInfo.lineIndex + 1})

\* C11: when the start projects onto one polyline and the end onto another
\* and the two are not joined through any chain of polylines and stubs, the
\* network built has start and end in different components, and the query
\* for them that is not timed out returns Failure(NoPath).
C11_SeparateRiversNoPath ==
  (Built /\ Separated) =>
    /\ coordToKey(end) \notin Component(network, {coordToKey(start)})
    /\ (Returned /\ query.start = start /\ query.end = end /\ ~TimedOutAtQuery)
         => FailedWith(pathErrors.NoPath)

\* the query between two rivers that are joined by nothing, the third river
\* and the stubs included
C11_Witness ==
  /\ Built /\ Separated
  /\ Len(storedLinestrings) >= 5
  /\ query.start = start /\ query.end = end
  /\ FailedWith(pathErrors.NoPath)

\* ------------------------------------------------------------------- C12
\* the crossing points lineIntersect reports for polylines a and b (0-based)
\* of the constructor's list
CrossingsOf(a, b) ==
  Vertices(lineIntersect(loc.linestrings[a + 1].coords,
                         loc.linestrings[b + 1].coords))

\* the pairs a < b that getIntersections has gone through
PairDone(a, b) ==
  /\ a < b
  /\ \/ a < loc.i
     \/ pc = "inner" /\ a = loc.i /\ b < loc.j

\* C12: while getIntersections runs, every crossing point reported for a pair
\* it has gone through is a vertex of both refined polylines of the pair (so
\* no later pair loses a point spliced by an earlier one); and in the network
\* built without a time-out, every crossing point of a pair is a vertex of
\* both refined polylines and every vertex of the two is connected to it.
C12_CrossingsShared ==
  LET n == Len(loc.linestrings)
  IN /\ pc \in {"outer", "inner"} =>
          \A a \in 0..(n - 1), b \in 0..(n - 1) :
            PairDone(a, b) =>
              \A p \in CrossingsOf(a, b) :
                /\ p \in Vertices(MapGet(loc.newLinestrings, a))
                /\ p \in Vertices(MapGet(loc.newLinestrings, b))
     /\ Built =>
          \A a \in 0..(n - 1), b \in 0..(n - 1) :
            a < b =>
              \A p \in CrossingsOf(a, b) :
                LET both == Vertices(loc.formattedLineStrings[a + 1])
                              \cup Vertices(loc.formattedLineStrings[b + 1])
                IN /\ p \in Vertices(loc.formattedLineStrings[a + 1])
                   /\ p \in Vertices(loc.formattedLineStrings[b + 1])
                   /\ { coordToKey(v) : v \in both }
                        \subseteq Component(network, {coordToKey(p)})

\* a network built from a polyline that crosses two others at two points
C12_Witness ==
  /\ Built
  /\ \E a \in 0..(Len(loc.linestrings) - 1) :
       \E b \in (a + 1)..(Len(loc.linestrings) - 1) :
         \E c \in (b + 1)..(Len(loc.linestrings) - 1) :
           /\ CrossingsOf(a, b) # {}
           /\ CrossingsOf(a, c) # {}
           /\ CrossingsOf(a, b) # CrossingsOf(a, c)

\* ------------------------------------------------------------------- C13
\* the segments (1-based, by their first vertex) of non-zero length
NonDegenerate(lineCoords) ==
  { k \in 1..(Len(lineCoords) - 1) :
      ~areCoordsEqual(lineCoords[k], lineCoords[k + 1]) }

SegmentDistance(lineCoords, k, pt) ==
  pointToLineDistance(pt, lineCoords[k], lineCoords[k + 1])

\* the first segment of non-zero length at the least distance to pt
FirstClosest(lineCoords, pt) ==
  CHOOSE k \in NonDegenerate(lineCoords) :
    \A m \in NonDegenerate(lineCoords) :
      /\ SegmentDistance(lineCoords, k, pt) <= SegmentDistance(lineCoords, m, pt)
      /\ m < k => SegmentDistance(lineCoords, m, pt)
                    > SegmentDistance(lineCoords, k, pt)

RemoveAt(seq, k) == SubSeq(seq, 1, k - 1) \o SubSeq(seq, k + 1, Len(seq))

\* insertPointIntoLineString has returned
Inserted == dj.phase \in {"inserted", "again"}

\* C13: a successful insertPointIntoLineString returns a polyline with one
\* more vertex, the new point right after the first vertex of the first
\* non-degenerate segment of minimum distance to it; deleting the new point
\* gives back the original vertex sequence.
C13_InsertAfterFirstClosest ==
  (Inserted /\ dj.out.success) =>
    /\ NonDegenerate(dj.lineCoords) # {}
    /\ LET k == FirstClosest(dj.lineCoords, dj.newPoint)
           updatedLine == dj.out.updatedLine
       IN /\ Len(updatedLine) = Len(dj.lineCoords) + 1
          /\ updatedLine[k] = dj.lineCoords[k]
          /\ updatedLine[k + 1] = dj.newPoint
          /\ RemoveAt(updatedLine, k + 1) = dj.lineCoords

\* an insertion into a polyline that begins with a zero-length segment and
\* has two segments at the least distance
C13_Witness ==
  /\ Inserted /\ dj.out.success
  /\ 1 \notin NonDegenerate(dj.lineCoords)
  /\ \E k \in NonDegenerate(dj.lineCoords) :
       /\ k > FirstClosest(dj.lineCoords, dj.newPoint)
       /\ SegmentDistance(dj.lineCoords, k, dj.newPoint)
            = SegmentDistance(dj.lineCoords,
                              FirstClosest(dj.lineCoords, dj.newPoint),
                              dj.newPoint)

\* ------------------------------------------------------------------- C14
\* C14: inserting a point that is already a vertex of the polyline yields
\* the same vertex sequence: the point is not duplicated and the number of
\* vertices is unchanged.
C14_SpliceIdempotent ==
  (Inserted /\ dj.out.success /\ dj.newPoint \in Vertices(dj.lineCoords))
    => dj.out.updatedLine = dj.lineCoords

\* ------------------------------------------------------------------- C15
\* no two consecutive vertices of the polyline are equal
DistinctConsecutive(coords) ==
  \A k \in 1..(Len(coords) - 1) : ~areCoordsEqual(coords[k], coords[k + 1])

\* C15: no node of the network has an edge to itself of weight 0, and every
\* polyline given to the graph population loop has distinct consecutive
\* vertices.
C15_NoZeroSelfLoop ==
  /\ \A u \in DOMAIN network :
       \A k \in 1..Len(network[u]) :
         ~(network[u][k].target = u /\ network[u][k].weight = 0)
  /\ pc = "populate" =>
       \A n \in 1..Len(loc.formattedLineStrings) :
         DistinctConsecutive(loc.formattedLineStrings[n])

\* ------------------------------------------------------------------- C16
\* the number of records {target: v, weight: w} in the list of node u
EdgeCount(graph, u, v, w) ==
  Cardinality({ k \in 1..Len(EdgesOf(graph, u)) :
                  graph[u][k].target = v /\ graph[u][k].weight = w })

Undirected(graph) ==
  \A u \in DOMAIN graph :
    \A k \in 1..Len(graph[u]) :
      LET v == graph[u][k].target
          w == graph[u][k].weight
      IN /\ v \in DOMAIN graph
         /\ EdgeCount(graph, u, v, w) = EdgeCount(graph, v, u, w)

\* C16: the graph is undirected, in the network and after every polyline the
\* population loop has added: every record {target: v, weight: w} of node u
\* has as many records {target: u, weight: w} of node v, and every target is
\* a key of the graph.
C16_Undirected ==
  /\ Undirected(network)
  /\ pc = "populate" => Undirected(loc.graph)

\* a network with a node of three or more neighbours and a node reached by
\* two parallel edges
C16_Witness ==
  /\ Built
  /\ \E u \in DOMAIN network :
       Cardinality({ network[u][k].target : k \in 1..Len(network[u]) }) >= 3
  /\ \E u \in DOMAIN network :
       \E k \in 1..Len(network[u]) :
         /\ network[u][k].target # u
         /\ EdgeCount(network, u, network[u][k].target, network[u][k].weight) >= 2

\* ------------------------------------------------------------------- C17
\* the places where u is followed by v, at distance w, in the polylines
FollowedBy(lines, u, v, w) ==
  UNION { { <<n, k>> : k \in { x \in 1..(Len(lines[n]) - 1) :
                                 /\ coordToKey(lines[n][x]) = u
                                 /\ coordToKey(lines[n][x + 1]) = v
                                 /\ turfDistance(lines[n][x], lines[n][x + 1]) = w } } :
          n \in 1..Len(lines) }

\* the records {target: v, weight: w} node u is due: one for each place where
\* v follows u and one for each place where u follows v
Expected(lines, u, v, w) ==
  Cardinality(FollowedBy(lines, u, v, w)) + Cardinality(FollowedBy(lines, v, u, w))

RECURSIVE TwicePerSegment(_)
TwicePerSegment(lines) ==
  IF Len(lines) = 0 THEN 0
  ELSE 2 * (Len(Head(lines)) - 1) + TwicePerSegment(Tail(lines))

RECURSIVE CountRecords(_, _)
CountRecords(graph, keys) ==
  IF keys = {} THEN 0
  ELSE LET u == CHOOSE x \in keys : TRUE
       IN Len(graph[u]) + CountRecords(graph, keys \ {u})

\* the graph holds the edges of the consecutive vertices of the polylines,
\* each as often as it is due, and no other record
ExactlyConsecutive(graph, lines) ==
  /\ \A u \in DOMAIN graph :
       \A k \in 1..Len(graph[u]) :
         EdgeCount(graph, u, graph[u][k].target, graph[u][k].weight)
           = Expected(lines, u, graph[u][k].target, graph[u][k].weight)
  /\ \A n \in 1..Len(lines) :
       \A k \in 1..(Len(lines[n]) - 1) :
         LET u == coordToKey(lines[n][k])
             v == coordToKey(lines[n][k + 1])
             w == turfDistance(lines[n][k], lines[n][k + 1])
         IN EdgeCount(graph, u, v, w) = Expected(lines, u, v, w)
  /\ CountRecords(graph, DOMAIN graph) = TwicePerSegment(lines)

\* C17: buildNetwork produces exactly the edges between consecutive vertices
\* of the refined polylines: after each polyline of k vertices the graph has
\* 2(k-1) more records, one in each direction per consecutive pair, weighted
\* with the distance between the two vertices, and no other record.
C17_ExactlyConsecutiveEdges ==
  /\ pc = "populate" =>
       ExactlyConsecutive(loc.graph,
                          SubSeq(loc.formattedLineStrings, 1, loc.bi))
  /\ Built => ExactlyConsecutive(network, loc.formattedLineStrings)

\* a network built from a refined polyline of four or more vertices whose
\* first and third vertex are not joined by an edge
C17_Witness ==
  /\ Built
  /\ \E n \in 1..Len(loc.formattedLineStrings) :
       LET line == loc.formattedLineStrings[n]
       IN /\ Len(line) >= 4
          /\ line[1] # line[3]
          /\ \A k \in 1..Len(network[coordToKey(line[1])]) :
               network[coordToKey(line[1])][k].target # coordToKey(line[3])

\* ------------------------------------------------------------------- C18
\* the polylines of the features, in input order: each LineString as it is
\* and each part of each MultiLineString
RECURSIVE FlatList(_)
FlatList(features) ==
  IF Len(features) = 0 THEN <<>>
  ELSE (IF Head(features).type = "LineString"
        THEN <<Head(features).coordinates>>
        ELSE Head(features).coordinates)
       \o FlatList(Tail(features))

\* the coordinates of the constructor's flat list
Flattened ==
  [n \in 1..Len(loc.linestrings) |-> loc.linestrings[n].coords]

\* C18 as claimed: at the end of the flatten loop the flat list holds every
\* polyline of the input, in input order, in every execution.
C18_AllKept ==
  pc = "gate" => Flattened = FlatList(allFeatures)

\* C18 amended: while no poll of the flatten loop has found the budget
\* exceeded, the flat list holds every polyline of the features gone through,
\* in input order and unchanged; the feature whose poll finds the budget
\* exceeded and every feature after it are skipped, so that the flat list
\* holds the polylines of a prefix of the input.
C18_KeptUntilTimeout ==
  pc \in {"flatten", "gate"} =>
    /\ ~hist.polled => Flattened = FlatList(SubSeq(allFeatures, 1, loc.next))
    /\ \E k \in 0..loc.next : Flattened = FlatList(SubSeq(allFeatures, 1, k))

\* the budget runs out after the first two features (a line and a multi-line
\* of two parts) have been flattened: the third feature is skipped
C18_Witness ==
  /\ pc = "gate" /\ hist.polled
  /\ Len(allFeatures) = 3
  /\ Flattened = FlatList(SubSeq(allFeatures, 1, 2))
  /\ Len(Flattened) = 3

\* ------------------------------------------------------------------- C19
\* the projection distance of p to polyline n of the flat list
ProjectionDistance(n, p) ==
  turfDistance(nearestPointOnLine(Flattened[n], p).coordinates, p)

\* info is what the locator is to retain for p: nothing on an empty flat
\* list, else the lowest index of least projection distance and the
\* projected point on that polyline
Located(info, p) ==
  IF Len(Flattened) = 0 THEN info = InitialPointInfo
  ELSE LET n == CHOOSE x \in 1..Len(Flattened) :
                  \A y \in 1..Len(Flattened) :
                    /\ ProjectionDistance(x, p) <= ProjectionDistance(y, p)
                    /\ y < x => ProjectionDistance(y, p) > ProjectionDistance(x, p)
       IN /\ info.lineIndex = n - 1
          /\ info.closestLineDistance = ProjectionDistance(n, p)
          /\ info.pointOnClosestLine
               = nearestPointOnLine(Flattened[n], p).coordinates

\* C19: for the start and for the end, each on its own, the locator retains
\* the index and the projected point of the polyline of least projection
\* distance among the polylines flattened so far, the lowest index among
\* equally close polylines.
C19_LowestIndexOfMinimum ==
  pc \in {"flatten", "gate"} =>
    /\ Located(loc.startPointInfo, start)
    /\ Located(loc.endPointInfo, end)

\* the start equally close to both rivers and located on the first, the end
\* located on the second
C19_Witness ==
  /\ pc = "gate"
  /\ Len(Flattened) = 2
  /\ ProjectionDistance(1, start) = ProjectionDistance(2, start)
  /\ loc.startPointInfo.lineIndex = 0
  /\ loc.endPointInfo.lineIndex = 1

\* ------------------------------------------------------------------- C20
\* the one edge record of a stub: to the projected point, at its distance
StubEdge(info) ==
  [target |-> coordToKey(info.pointOnClosestLine),
   weight |-> info.closestLineDistance]

\* C20 as claimed: in a network built without time-out and not too far, the
\* start and the end are nodes with exactly one edge record each, the one of
\* the stub towards the projected point.
C20_OneStubEdge ==
  Built =>
    /\ EdgesOf(network, coordToKey(start)) = <<StubEdge(loc.startPointInfo)>>
    /\ EdgesOf(network, coordToKey(end)) = <<StubEdge(loc.endPointInfo)>>

\* the edge records due to a query point that lies off every polyline: one,
\* or two where start and end are the same point and both stubs end in it
OffRiverEdges(info) ==
  IF start = end THEN <<StubEdge(info), StubEdge(info)>> ELSE <<StubEdge(info)>>

\* C20 amended: in a network built without time-out and not too far, the
\* start and the end are nodes; a query point at a distance above 0 from its
\* polyline has the edge of its stub to its projected point and no other
\* (that edge twice if start and end are the same point).
C20_StubEdgeOffRiver ==
  Built =>
    /\ coordToKey(start) \in DOMAIN network
    /\ coordToKey(end) \in DOMAIN network
    /\ loc.startPointInfo.closestLineDistance > 0 =>
         network[coordToKey(start)] = OffRiverEdges(loc.startPointInfo)
    /\ loc.endPointInfo.closestLineDistance > 0 =>
         network[coordToKey(end)] = OffRiverEdges(loc.endPointInfo)

\* a network built for two different query points, both off the rivers
C20_Witness ==
  /\ Built
  /\ start # end
  /\ loc.startPointInfo.closestLineDistance > 0
  /\ loc.endPointInfo.closestLineDistance > 0
  /\ Len(network[coordToKey(start)]) = 1

\* ------------------------------------------------------------------- C21
\* C21: a construction made on the same feature array and the same query
\* coordinates after an earlier one has finished builds the same network as
\* the earlier one, and the solver finds the same path and distance in both
\* (neither construction timed out or too far).
C21_SecondRunSameGraph ==
  (Built /\ hist.run > 1 /\ hist.first.built) =>
    /\ network = hist.first.network
    /\ dijkstra(FALSE, network, coordToKey(start), coordToKey(end))
         = dijkstra(FALSE, hist.first.network, coordToKey(start),
                    coordToKey(end))

\* ------------------------------------------------------------------- C22
\* the constructor is past its two endpoint splices
PastSplice ==
  pc \in {"outer", "inner", "populate", "done"} /\ ~isTooFarFromRivers

\* the polyline, as the caller first gave it, onto which info projects
GivenLine(info) == FlatList(hist.given)[info.lineIndex + 1]

\* the endpoint's polyline has no segment of non-zero length: the insertion
\* fails with {updatedLine: null, success: false}, the caller has skipped the
\* splice and kept the polyline, in its list and in the caller's feature
SkippedSplice(info) ==
  NonDegenerate(GivenLine(info)) = {} =>
    /\ insertPointIntoLineString(GivenLine(info), info.pointOnClosestLine)
         = [updatedLine |-> <<>>, success |-> FALSE]
    /\ loc.linestrings[info.lineIndex + 1].coords = GivenLine(info)
    /\ FlatList(allFeatures)[info.lineIndex + 1] = GivenLine(info)

\* C22: insertPointIntoLineString on a polyline without a segment of non-zero
\* length inserts nothing and reports failure; the constructor then skips
\* that splice, keeps the polyline as it was and goes on to build the network.
C22_FailedInsertSkipped ==
  PastSplice =>
    /\ SkippedSplice(loc.startPointInfo)
    /\ SkippedSplice(loc.endPointInfo)

\* the start projects onto the river degenerated to a point; the network is
\* built all the same and the query from there to the end succeeds
C22_Witness ==
  /\ Built
  /\ NonDegenerate(GivenLine(loc.startPointInfo)) = {}
  /\ start # end
  /\ Returned /\ result.success

\* ------------------------------------------------------------------- C23
\* C23: when the projection distance of the start or of the end exceeds
\* allowedDistanceFromRivers the constructor ends at the threshold gate: the
\* flag is set, the network and the stored linestrings are empty, and there
\* has been no splice, no stub, no intersection step and no edge step, so
\* the caller's features and the flattened polylines are as given.
C23_TooFarShortCircuit ==
  (pc \notin {"flatten", "gate", "thrown"} /\ TooFar(loc)) =>
    /\ pc = "done"
    /\ isTooFarFromRivers
    /\ network = EmptyMap
    /\ storedLinestrings = <<>>
    /\ allFeatures = hist.given
    /\ \E k \in 0..Len(hist.given) :
         Flattened = FlatList(SubSeq(hist.given, 1, k))
    /\ loc.newLinestrings = EmptyMap
    /\ loc.graph = EmptyMap
    /\ hist.edgeSteps = 0

\* the end lies on a river, the start is too far from it
C23_Witness ==
  /\ pc = "done"
  /\ isTooFarFromRivers
  /\ loc.endPointInfo.closestLineDistance = 0
  /\ loc.startPointInfo.closestLineDistance > AllowedDistanceFromRivers
  /\ loc.startPointInfo.closestLineDistance < Infinity

\* ------------------------------------------------------------------- C24
\* the three points are nodes of one connected component of the network
SameComponent(a, b, c) ==
  /\ {coordToKey(a), coordToKey(b), coordToKey(c)} \subseteq DOMAIN network
  /\ {coordToKey(b), coordToKey(c)} \subseteq Component(network, {coordToKey(a)})

\* the distance findShortestPath reports for (a, b) on the instance as it is
Reported(a, b) == findShortestPath(a, b).value.distance

\* the last query has just been answered: a query made now has the same
\* time-out status
JustAnswered == pc = "done" /\ Returned /\ query.at = now

\* C24 as claimed: for the query (A, C) just answered and every point B on
\* the same component, the reported distance for (A, B) plus the one for
\* (B, C) is at least the one reported for (A, C).
C24_Triangle ==
  JustAnswered =>
    \A b \in AlongCoords :
      SameComponent(query.start, b, query.end) =>
        Reported(query.start, b) + Reported(b, query.end) >= result.distance

\* C24 amended: the same up to one hundredth of a mile, which the rounding
\* of each reported distance to 2 decimals can cost.
C24_TriangleWithinRounding ==
  JustAnswered =>
    \A b \in AlongCoords :
      SameComponent(query.start, b, query.end) =>
        Reported(query.start, b) + Reported(b, query.end)
          >= result.distance - 10

\* a successful query whose two legs through a point between its ends add
\* up to a hundredth of a mile less than the distance reported for it
C24_Witness ==
  /\ JustAnswered /\ result.success
  /\ \E b \in AlongCoords \ {query.start, query.end} :
       /\ SameComponent(query.start, b, query.end)
       /\ Reported(query.start, b) + Reported(b, query.end)
            = result.distance - 10

\* ------------------------------------------------------------------- C25
\* the least weight of the edge records from u to v
MinWeight(graph, u, v) ==
  LET ws == { graph[u][k].weight :
                k \in { x \in 1..Len(EdgesOf(graph, u)) : graph[u][x].target = v } }
  IN CHOOSE w \in ws : \A x \in ws : w <= x

Joined(graph, u, v) ==
  \E k \in 1..Len(EdgesOf(graph, u)) : graph[u][k].target = v

RECURSIVE WalkWeight(_, _)
WalkWeight(graph, path) ==
  IF Len(path) < 2 THEN 0
  ELSE MinWeight(graph, path[1], path[2]) + WalkWeight(graph, Tail(path))

\* the path begins at the source, ends at the target, visits no node twice
\* and steps along edges of the graph
SimpleWalk(graph, source, target, path) ==
  /\ path[1] = source
  /\ path[Len(path)] = target
  /\ \A a \in 1..Len(path), b \in 1..Len(path) : a # b => path[a] # path[b]
  /\ \A k \in 1..(Len(path) - 1) : Joined(graph, path[k], path[k + 1])

\* C25: a non-empty path returned by dijkstra is a simple walk of the graph
\* from the source to the target, and the least edge weights along it add up
\* to the returned distance.
C25_PathIsSimpleWalk ==
  (dj.phase = "returned" /\ ~dj.tooFar /\ dj.out.path # <<>>) =>
    /\ SimpleWalk(dj.graph, dj.source, dj.target, dj.out.path)
    /\ WalkWeight(dj.graph, dj.out.path) = dj.out.distance

\* ------------------------------------------------------------------- C26
\* the backward walk from node n over the predecessor links
BackFrom(n) ==
  WalkBack(dj.st.predecessors, n, <<>>,
           Cardinality(DOMAIN dj.st.predecessors) + 2)

\* no backward walk comes by a node twice
PredecessorsAcyclic ==
  dj.phase \in {"loop", "returned"} =>
    \A n \in DOMAIN dj.st.predecessors :
      \A a \in 1..Len(BackFrom(n)), b \in 1..Len(BackFrom(n)) :
        a # b => BackFrom(n)[a] # BackFrom(n)[b]

\* an iteration of the frontier loop takes one entry off the queue or adds
\* one node, not visited before, to the visited set
VisitsOnce ==
  (dj.phase = "loop" /\ dj'.phase = "loop") =>
    \/ dj'.st.visited = dj.st.visited
    \/ \E n \in DOMAIN dj.graph \cup {dj.source} :
         /\ n \notin dj.st.visited
         /\ dj'.st.visited = dj.st.visited \cup {n}

\* C26: every call of dijkstra returns, whatever the graph (cycles, parallel
\* edges, zero-weight edges, self-loops) and whether or not source and target
\* are keys of it; the frontier loop visits no node twice and the predecessor
\* links never form a cycle.
C26_Terminates ==
  /\ <>(dj.phase = "returned")
  /\ [][VisitsOnce]_vars
  /\ []PredecessorsAcyclic

\* a call has returned on a graph with a cycle, a zero-weight self-loop,
\* parallel edges and a zero-weight edge, for a target that is no key of it
C26_Witness ==
  /\ dj.phase = "returned" /\ ~dj.tooFar
  /\ dj.source = 1 /\ dj.target = 0
  /\ Joined(dj.graph, 1, 1)
  /\ Joined(dj.graph, 1, 2) /\ Joined(dj.graph, 2, 3)
  /\ Cardinality({ k \in 1..Len(dj.graph[1]) : dj.graph[1][k].target = 3 }) >= 2
  /\ MinWeight(dj.graph, 2, 3) = 0
  /\ dj.st.visited = {1, 2, 3}

\* ------------------------------------------------------------------- C27
\* the point is a node of the network, connected to every vertex of the
\* polyline it was projected onto, as flattened and as refined
ConnectedToItsPolyline(p, info) ==
  /\ coordToKey(p) \in DOMAIN network
  /\ { coordToKey(v) :
         v \in Vertices(loc.linestrings[info.lineIndex + 1].coords)
                 \cup Vertices(loc.formattedLineStrings[info.lineIndex + 1]) }
       \subseteq Component(network, {coordToKey(p)})

\* C27: in a network built without time-out and not too far, the keys of the
\* start and of the end are nodes, each connected to every vertex of the
\* polyline onto which it was projected.
C27_EndpointsInNetwork ==
  Built =>
    /\ ConnectedToItsPolyline(start, loc.startPointInfo)
    /\ ConnectedToItsPolyline(end, loc.endPointInfo)

\* a network built for a start off the rivers, projected onto a polyline
\* refined to four or more vertices, and a different end
C27_Witness ==
  /\ Built
  /\ start # end
  /\ loc.startPointInfo.closestLineDistance > 0
  /\ Len(loc.formattedLineStrings[loc.startPointInfo.lineIndex + 1]) >= 4

\* ------------------------------------------------------------------- C28
\* the constructor's own start and end have been queried, in time
OwnQueryAnswered ==
  Returned /\ query.start = start /\ query.end = end /\ ~TimedOutAtQuery

\* C28: on a network built without time-out for a start and an end that
\* project onto the same polyline, the query for that start and end, not
\* timed out, returns Success; start = end and endpoints lying on the
\* polyline included.
C28_SamePolylineSucceeds ==
  (Built /\ OwnQueryAnswered
     /\ loc.startPointInfo.lineIndex = loc.endPointInfo.lineIndex)
    => result.success

\* ------------------------------------------------------------------- C29
\* C29: the constructor leaves the caller's features as they were given:
\* the coordinates of every input feature are the same at every point of
\* the construction and after it.
C29_InputUnchanged == allFeatures = hist.given

\* ------------------------------------------------------------------- C30
\* a step that answers a query: the query record or the result changes
QueryStep == query' # query \/ result' # result

\* the query being answered is the one answered before, and the instance is
\* timed out now exactly if it was then
SameQuestion ==
  /\ result # NoResult
  /\ query'.start = query.start
  /\ query'.end = query.end
  /\ (query'.at - startTime > maximumTimeLimit) = TimedOutAtQuery

\* C30: a query leaves network, linestrings, isTooFarFromRivers and startTime
\* as they were, and a query with the same start and end as the one before
\* it, asked while the time-out status is the same, returns the same result.
C30_QueriesReadOnly ==
  [][QueryStep =>
       /\ UNCHANGED <<network, storedLinestrings, isTooFarFromRivers, startTime>>
       /\ SameQuestion => result' = result]_vars

\* a query was asked again on a built instance and found a path
C30_Witness ==
  /\ Built
  /\ hist.repeated
  /\ Returned
  /\ result.success
  /\ query.at > startTime

====
